---------------------------- MODULE Spec2Model ----------------------------
(***************************************************************************)
(* EOOS system interface over FreeRTOS: SemaphoreResource, MutexResource,  *)
(* ThreadResource and the two scheduler interrupt routines, together with  *)
(* the part of the FreeRTOS kernel these classes call into.                *)
(*                                                                         *)
(* The kernel is single core, preemptive and priority based.  cur is       *)
(* pxCurrentTCB; a task executes a step only while it is cur.  Interrupt   *)
(* routines run at any time.  The kernel calls are modelled after the      *)
(* FreeRTOS sources (queue.c, tasks.c); where kernel releases differ, or a *)
(* call is made outside its contract, every outcome is kept.               *)
(***************************************************************************)
EXTENDS Integers, Sequences, FiniteSets, TLC

\* ------------------------------------------------------------------ bounds
\* Successful gives on the semaphore over a run.
MaxGives == 3
\* Nesting depth of recursive lock() calls.
MaxDepth == 3
\* EOOS_GLOBAL_SYS_NUMBER_OF_THREADS the scheduler is built with: the
\* capacity of its pool of threads.
NUMBER_OF_THREADS == 2
\* The kernel's tick count is a TickType_t that wraps around: it is kept
\* here modulo TickModulus.
TickModulus == 2

\* --------------------------------------------------------------- constants
MAX_PERMITS == 2147483647
TYPE_COUNTING == "TYPE_COUNTING"
TYPE_BINARY == "TYPE_BINARY"

\* Client tasks and the kernel idle task.
Tasks == {"t1", "t2", "t3"}
Idle == "idle"
\* The kernel task execute() creates for the ThreadResource.
Th == "th"
AllTasks == Tasks \cup {Th}
NoTask == "none"
\* Kernel priorities the client tasks are created with: every ordering of
\* two priority levels over the tasks, up to renaming the tasks.
TaskPriorities ==
    {[t1 |-> 1, t2 |-> 1, t3 |-> 1, th |-> 0],
     [t1 |-> 1, t2 |-> 1, t3 |-> 2, th |-> 0],
     [t1 |-> 1, t2 |-> 2, t3 |-> 2, th |-> 0]}
\* Arguments the semaphore constructors are called with.
PermitArgs == {-1, 0, 1, 2}
MaximumArgs == {-1, 0, 1, 2, MAX_PERMITS}

VARIABLES
    \* kernel scheduler
    cur,              \* pxCurrentTCB: the running task, or Idle
    tstate,           \* task -> "none" | "ready" | "blocked" | "delayed" |
                      \*         "suspended" | "deleted"
    kprio,            \* task -> uxPriority
    kbase,            \* task -> uxBasePriority
    xYieldPending,    \* kernel flag: a switch is due at the next tick
    xTickCount,       \* kernel tick count, modulo TickModulus
    pc,               \* task -> where it is: "run" outside any call
    last,             \* the operation performed last and what it returned
    \* SemaphoreResource
    sBase,            \* Parent::isConstructed() when construct() runs
    sValid,           \* isConstructed() of the semaphore
    type_,            \* type_
    permits_,         \* permits_
    maximum_,         \* maximum_
    sem_,             \* sem_ != NULL
    sCount,           \* kernel queue uxMessagesWaiting
    sLength,          \* kernel queue uxLength
    sWaiters,         \* kernel queue xTasksWaitingToReceive, by priority
    xHigherPriorityTaskWoken_,
    count0,           \* history: the count right after construction
    nullHandle,       \* history: the kernel was called with a NULL handle
    nAcq,             \* history: completed acquire() calls
    nGive,            \* history: successful release calls
    \* MutexResource
    mValid,           \* isConstructed() of the mutex
    mutex_,           \* mutex_ != NULL
    mHolder,          \* kernel mutex holder, or NoTask when free
    mDepth,           \* kernel mutex uxRecursiveCallCount
    mWaiters,         \* kernel mutex xTasksWaitingToReceive, by priority
    held,             \* history: task -> lock() calls that returned true
                      \*          less unlock() calls that returned true
    nested,           \* history: task -> the deepest held[task] since it
                      \*          last took the free mutex
    \* ThreadResource
    thBase,           \* Parent::isConstructed() when construct() runs
    taskOk,           \* task_->isConstructed()
    thValid,          \* isConstructed() of the thread
    alive,            \* the object exists: its destructor has not run
    status_,          \* status_
    priority_,        \* priority_
    thread_,          \* thread_ != NULL
    execFailed,       \* history: an execute() failed in the kernel
    nCreate,          \* history: kernel tasks xTaskCreateStatic() created
    nBody,            \* history: calls of task_->start() by the trampoline
    nBodyRet,         \* history: returns of task_->start()
    nDelete,          \* history: vTaskDelete() calls
    \* Scheduler::ResourcePool
    used,             \* slot -> the slot is allocated
    owner,            \* slot -> the task createThread() returned it to
    thr,              \* slot -> status_ of the thread in it, or "none"
    call,             \* task -> the pool operation it is in, and where
    nOut,             \* history: allocate() calls that returned a slot less
                      \*          free() calls that released one
    nLive,            \* history: threads createThread() returned less
                      \*          threads deleted
    exhausted         \* history: an allocate() found no free slot

kernelVars == <<cur, tstate, kprio, kbase, xYieldPending, pc, last>>
mtxVars == <<mValid, mutex_, mHolder, mDepth, mWaiters, held, nested>>
thrHist == <<nCreate, nBody, nBodyRet, nDelete>>
thrVars == <<thBase, taskOk, thValid, alive, status_, priority_, thread_,
             execFailed, thrHist>>
poolVars == <<used, owner, thr, call, nOut, nLive, exhausted>>
semVars == <<sBase, sValid, type_, permits_, maximum_, sem_, sCount, sLength,
             sWaiters, xHigherPriorityTaskWoken_, count0, nullHandle, nAcq,
             nGive>>
vars == <<kernelVars, xTickCount, semVars, mtxVars, thrVars, poolVars>>

\* ------------------------------------------------------------------ kernel
\* uxPriority of a task; the idle task has tskIDLE_PRIORITY, which is 0.
PrioOf(t) == IF t = Idle THEN 0 ELSE kprio[t]

ReadyTasks(ts) == {t \in AllTasks : ts[t] = "ready"}

\* taskSELECT_HIGHEST_PRIORITY_TASK: a ready task of the highest priority
\* (any of them: the ready list is served round robin), else the idle task.
SelectHighest(ts, kp) ==
    IF ReadyTasks(ts) = {} THEN {Idle}
    ELSE {t \in ReadyTasks(ts) : \A u \in ReadyTasks(ts) : kp[u] <= kp[t]}

\* vTaskSwitchContext()
vTaskSwitchContext(ts, kp) ==
    /\ cur' \in SelectHighest(ts, kp)
    /\ xYieldPending' = FALSE

\* vListInsert into an event list: ordered by priority, behind the waiters
\* of the same priority.
ListInsert(q, t, kp) ==
    LET k == Cardinality({i \in 1..Len(q) : kp[q[i]] >= kp[t]})
    IN  SubSeq(q, 1, k) \o <<t>> \o SubSeq(q, k + 1, Len(q))

\* What an operation returned: op names the operation ("x:wait" when the call
\* blocked instead of returning), who the caller, ok a bool_t result, num an
\* int32_t result.
Result(op, who, ok, num) == [op |-> op, who |-> who, ok |-> ok, num |-> num]

\* A task that is running its own code, outside any call of this layer.
Running(t) == t = cur /\ t \in AllTasks /\ pc[t] = "run"

\* The caller of a task-level operation on an object: a running client task.
Caller(t) == Running(t) /\ t \in Tasks

\* --------------------------------------------------- SemaphoreResource ctor
\* static_cast<::UBaseType_t>(int32_t) keeps the 32 bits and reads them
\* unsigned.  An unsigned value is held here by its bits as an int32_t, and
\* ULeq(a, b) is a <= b on the unsigned values: a negative int32_t stands for
\* a value above every non-negative one.
ULeq(a, b) == IF (a >= 0) = (b >= 0) THEN a <= b ELSE a >= 0

\* xSemaphoreCreateCountingStatic(uxMaxCount, uxInitialCount, &buffer_).
\* Kernels from V10.4.4 return NULL when uxMaxCount is 0 or uxInitialCount is
\* above uxMaxCount; earlier kernels only configASSERT it and create the
\* queue with the given count.  The set holds every outcome.
CreateCountingStatic(uxMaxCount, uxInitialCount) ==
    IF uxMaxCount # 0 /\ ULeq(uxInitialCount, uxMaxCount)
    THEN {[handle |-> TRUE, count |-> uxInitialCount, length |-> uxMaxCount]}
    ELSE {[handle |-> FALSE, count |-> 0, length |-> 0],
          [handle |-> TRUE, count |-> uxInitialCount, length |-> uxMaxCount]}

\* xSemaphoreCreateBinaryStatic(&buffer_): created empty, length 1.
CreateBinaryStatic == {[handle |-> TRUE, count |-> 0, length |-> 1]}

\* initialize(): the kernel objects the switch on type_ can produce, the
\* arguments cast to ::UBaseType_t.
initialize(type, permits, maximum) ==
    IF type = TYPE_COUNTING THEN CreateCountingStatic(maximum, permits)
    ELSE CreateBinaryStatic

\* The variant of construct() without the test of permits_.
construct_noPermitsTest(base, type, permits, maximum) ==
    IF ~base \/ maximum < 0 \/ maximum > MAX_PERMITS
    THEN {[valid |-> FALSE, handle |-> FALSE, count |-> 0, length |-> 0]}
    ELSE {[valid |-> k.handle, handle |-> k.handle, count |-> k.count,
           length |-> k.length] : k \in initialize(type, permits, maximum)}

\* construct(): the objects construction can produce, as
\* [valid, handle, count, length].
construct(base, type, permits, maximum) ==
    IF ~base \/ permits < 0 \/ maximum < 0 \/ maximum > MAX_PERMITS
    THEN {[valid |-> FALSE, handle |-> FALSE, count |-> 0, length |-> 0]}
    ELSE {[valid |-> k.handle, handle |-> k.handle, count |-> k.count,
           length |-> k.length] : k \in initialize(type, permits, maximum)}

\* SemaphoreResource(Type type, int32_t permits): maximum_ is MAX_PERMITS.
\* SemaphoreResource(int32_t permits, int32_t maximum): type_ is counting.
CtorArgs ==
    {[type |-> ty, permits |-> p, maximum |-> MAX_PERMITS] :
        ty \in {TYPE_COUNTING, TYPE_BINARY}, p \in PermitArgs}
    \cup
    {[type |-> TYPE_COUNTING, permits |-> p, maximum |-> m] :
        p \in PermitArgs, m \in MaximumArgs}

SemConstructed(base, a, obj) ==
    /\ sBase = base
    /\ type_ = a.type
    /\ permits_ = a.permits
    /\ maximum_ = a.maximum
    /\ sValid = obj.valid
    /\ sem_ = obj.handle
    /\ sCount = obj.count
    /\ sLength = obj.length
    /\ count0 = obj.count
    /\ nullHandle = FALSE
    /\ sWaiters = <<>>
    /\ xHigherPriorityTaskWoken_ = FALSE
    /\ nAcq = 0
    /\ nGive = 0

\* ------------------------------------------------ scheduler and its routines
\* Thread::sleep(ms) -> Scheduler::sleepThread(ms): the caller is delayed.
sleep(t) ==
    /\ Running(t)
    /\ LET ts == [tstate EXCEPT ![t] = "delayed"]
       IN  /\ tstate' = ts
           /\ vTaskSwitchContext(ts, kprio)
    /\ last' = Result("sleep", t, TRUE, 0)
    /\ UNCHANGED <<kprio, kbase, pc, xTickCount>>
    /\ UNCHANGED <<semVars, mtxVars, thrVars, poolVars>>

\* Thread::yield() -> Scheduler::yieldThread(): taskYIELD().
yield(t) ==
    /\ Running(t)
    /\ vTaskSwitchContext(tstate, kprio)
    /\ last' = Result("yield", t, TRUE, 0)
    /\ UNCHANGED <<tstate, kprio, kbase, pc, xTickCount>>
    /\ UNCHANGED <<semVars, mtxVars, thrVars, poolVars>>

\* SchedulerRoutineTimer::start() without its call of vTaskSwitchContext().
SchedulerRoutineTimer_start_noSwitch ==
    \E woken \in SUBSET {t \in AllTasks : tstate[t] = "delayed"} :
        LET ts == [t \in AllTasks |-> IF t \in woken THEN "ready" ELSE tstate[t]]
            xSwitchRequired ==
                \/ \E w \in woken : kprio[w] >= PrioOf(cur)
                \/ \E u \in ReadyTasks(ts) \ {cur} : kprio[u] = PrioOf(cur)
                \/ xYieldPending
        IN  /\ xTickCount' = (xTickCount + 1) % TickModulus
            /\ tstate' = ts
            /\ UNCHANGED <<cur, xYieldPending>>
            /\ last' = Result("Timer.start", "isr", xSwitchRequired, 0)
            /\ UNCHANGED <<kprio, kbase, pc, semVars, mtxVars, thrVars,
                           poolVars>>

\* SchedulerRoutineTimer::start(): xTaskIncrementTick() advances the tick
\* count, readies the delayed tasks whose time is up (woken) and reports a
\* switch when one of them has at least the running priority, when the
\* running priority is shared (time slicing) or when a yield is pending;
\* vTaskSwitchContext() is called when it reported one.
SchedulerRoutineTimer_start ==
    \E woken \in SUBSET {t \in AllTasks : tstate[t] = "delayed"} :
        LET ts == [t \in AllTasks |-> IF t \in woken THEN "ready" ELSE tstate[t]]
            xSwitchRequired ==
                \/ \E w \in woken : kprio[w] >= PrioOf(cur)
                \/ \E u \in ReadyTasks(ts) \ {cur} : kprio[u] = PrioOf(cur)
                \/ xYieldPending
        IN  /\ xTickCount' = (xTickCount + 1) % TickModulus
            /\ tstate' = ts
            /\ IF xSwitchRequired
               THEN vTaskSwitchContext(ts, kprio)
               ELSE UNCHANGED <<cur, xYieldPending>>
            /\ last' = Result("Timer.start", "isr", xSwitchRequired, 0)
            /\ UNCHANGED <<kprio, kbase, pc, semVars, mtxVars, thrVars,
                           poolVars>>

\* SchedulerRoutineSvcall::start(): vTaskSwitchContext().
SchedulerRoutineSvcall_start ==
    /\ vTaskSwitchContext(tstate, kprio)
    /\ last' = Result("Svcall.start", "isr", TRUE, 0)
    /\ UNCHANGED <<tstate, kprio, kbase, pc, xTickCount>>
    /\ UNCHANGED <<semVars, mtxVars, thrVars, poolVars>>

\* --------------------------------------------------------- SemaphoreResource
\* What no operation of the semaphore touches.
notSem == <<kbase, xTickCount, mtxVars, thrVars, poolVars>>

\* The running task blocks on the semaphore: xQueueSemaphoreTake() with
\* portMAX_DELAY places it on the event list and yields.
TakeBlock(t) ==
    LET ts == [tstate EXCEPT ![t] = "blocked"]
    IN  /\ tstate' = ts
        /\ pc' = [pc EXCEPT ![t] = "take"]
        /\ sWaiters' = ListInsert(sWaiters, t, kprio)
        /\ vTaskSwitchContext(ts, kprio)
        /\ last' = Result("acquire:wait", t, FALSE, 0)
        /\ UNCHANGED <<kprio, sBase, sValid, type_, permits_, maximum_, sem_,
                       sCount, sLength, xHigherPriorityTaskWoken_, count0,
                       nullHandle, nAcq, nGive>>

\* xQueueSemaphoreTake() finds a permit: the count drops by one, pdPASS.
TakePass(t) ==
    /\ sCount' = sCount - 1
    /\ nAcq' = nAcq + 1
    /\ pc' = [pc EXCEPT ![t] = "run"]
    /\ last' = Result("acquire", t, TRUE, 0)
    /\ UNCHANGED <<cur, tstate, kprio, xYieldPending, sBase, sValid, type_,
                   permits_, maximum_, sem_, sLength, sWaiters,
                   xHigherPriorityTaskWoken_, count0, nullHandle, nGive>>

\* The variant of acquire() that takes a permit from an empty semaphore.
acquire_noWait(t) ==
    /\ UNCHANGED notSem
    /\ Caller(t)
    /\ IF ~sValid
       THEN /\ last' = Result("acquire", t, FALSE, 0)
            /\ UNCHANGED <<cur, tstate, kprio, xYieldPending, pc, semVars>>
       ELSE IF sCount >= 0 THEN TakePass(t) ELSE TakeBlock(t)

\* acquire(): false on an object that is not constructed, else
\* xSemaphoreTake(sem_, portMAX_DELAY).
acquire(t) ==
    /\ UNCHANGED notSem
    /\ Caller(t)
    /\ IF ~sValid
       THEN /\ last' = Result("acquire", t, FALSE, 0)
            /\ UNCHANGED <<cur, tstate, kprio, xYieldPending, pc, semVars>>
       ELSE IF sCount > 0 THEN TakePass(t) ELSE TakeBlock(t)

\* A task woken inside xQueueSemaphoreTake() runs again: it takes the permit
\* if one is still there and blocks again otherwise.
acquireResume(t) ==
    /\ UNCHANGED notSem
    /\ t = cur
    /\ t \in Tasks
    /\ pc[t] = "take"
    /\ IF sCount > 0 THEN TakePass(t) ELSE TakeBlock(t)

\* xQueueGenericSend() finds the queue full.  The first definition is the
\* variant that lets one permit more in.
GiveQueueFull_late == sCount > sLength

GiveQueueFull == sCount >= sLength

\* release(): false on an object that is not constructed, else
\* xSemaphoreGive(sem_): with the count below the queue length the count goes
\* up by one and the first waiter is readied, the caller yielding to it when
\* it has the higher priority; with the queue full errQUEUE_FULL.
release(t) ==
    /\ UNCHANGED notSem
    /\ Caller(t)
    /\ nGive < MaxGives
    /\ IF ~sValid \/ GiveQueueFull
       THEN /\ last' = Result("release", t, FALSE, 0)
            /\ UNCHANGED <<cur, tstate, kprio, xYieldPending, pc, semVars>>
       ELSE /\ sCount' = sCount + 1
            /\ nGive' = nGive + 1
            /\ last' = Result("release", t, TRUE, 0)
            /\ IF sWaiters = <<>>
               THEN UNCHANGED <<cur, tstate, xYieldPending, sWaiters>>
               ELSE LET w == Head(sWaiters)
                        ts == [tstate EXCEPT ![w] = "ready"]
                    IN  /\ sWaiters' = Tail(sWaiters)
                        /\ tstate' = ts
                        /\ IF kprio[w] > kprio[t]
                           THEN vTaskSwitchContext(ts, kprio)
                           ELSE UNCHANGED <<cur, xYieldPending>>
            /\ UNCHANGED <<kprio, pc, sBase, sValid, type_, permits_, maximum_,
                           sem_, sLength, xHigherPriorityTaskWoken_, count0,
                           nullHandle, nAcq>>

\* TRUE when a give from the interrupt would ready a waiter of higher priority
\* than the running task (xTaskRemoveFromEventList() returning pdTRUE).
GiveWakesHigher ==
    /\ sCount < sLength
    /\ sWaiters # <<>>
    /\ kprio[Head(sWaiters)] > PrioOf(cur)

\* releaseFromInterrupt() sets the flag to pdFALSE before the give.  The
\* first definition is the variant that leaves the flag as it is.
WokenBeforeGive_kept == xHigherPriorityTaskWoken_

WokenBeforeGive == FALSE

\* releaseFromInterrupt(): false on an object that is not constructed, else
\* the flag is cleared and xSemaphoreGiveFromISR(sem_, &flag) is called: with
\* the count below the queue length the count goes up by one, the first
\* waiter is readied and, when it has the higher priority, the flag and the
\* kernel's pending yield are set; with the queue full errQUEUE_FULL.
releaseFromInterrupt ==
    /\ UNCHANGED notSem
    /\ nGive < MaxGives
    /\ IF ~sValid
       THEN /\ last' = Result("releaseFromInterrupt", "isr", FALSE, 0)
            /\ UNCHANGED <<cur, tstate, kprio, xYieldPending, pc, semVars>>
       ELSE IF sCount >= sLength
       THEN /\ xHigherPriorityTaskWoken_' = WokenBeforeGive
            /\ last' = Result("releaseFromInterrupt", "isr", FALSE, 0)
            /\ UNCHANGED <<cur, tstate, kprio, xYieldPending, pc, sBase,
                           sValid, type_, permits_, maximum_, sem_, sCount,
                           sLength, sWaiters, count0, nullHandle, nAcq, nGive>>
       ELSE /\ sCount' = sCount + 1
            /\ nGive' = nGive + 1
            /\ last' = Result("releaseFromInterrupt", "isr", TRUE, 0)
            /\ xHigherPriorityTaskWoken_' = (WokenBeforeGive \/ GiveWakesHigher)
            /\ xYieldPending' = (xYieldPending \/ GiveWakesHigher)
            /\ IF sWaiters = <<>>
               THEN UNCHANGED <<tstate, sWaiters>>
               ELSE /\ sWaiters' = Tail(sWaiters)
                    /\ tstate' = [tstate EXCEPT ![Head(sWaiters)] = "ready"]
            /\ UNCHANGED <<cur, kprio, pc, sBase, sValid, type_, permits_,
                           maximum_, sem_, sLength, count0, nullHandle, nAcq>>

\* hasToSwitchContex() that reads the flag and clears it.
hasToSwitchContex_readAndClear ==
    /\ UNCHANGED notSem
    /\ last' = Result("hasToSwitchContex", "isr", xHigherPriorityTaskWoken_, 0)
    /\ xHigherPriorityTaskWoken_' = FALSE
    /\ UNCHANGED <<cur, tstate, kprio, xYieldPending, pc, sBase, sValid, type_,
                   permits_, maximum_, sem_, sCount, sLength, sWaiters, count0,
                   nullHandle, nAcq, nGive>>

\* hasToSwitchContex(): xHigherPriorityTaskWoken_ != pdFALSE.
hasToSwitchContex ==
    /\ UNCHANGED notSem
    /\ last' = Result("hasToSwitchContex", "isr", xHigherPriorityTaskWoken_, 0)
    /\ UNCHANGED <<cur, tstate, kprio, xYieldPending, pc, semVars>>

\* What uxSemaphoreGetCount(NULL) may return when it returns: it reads
\* uxMessagesWaiting of a queue at address zero.
UndefinedCounts == {-1, 0, 1, MAX_PERMITS}

\* getCount(): uxSemaphoreGetCount(sem_), whatever sem_ is.  With a handle it
\* returns the count.  With sem_ == NULL the behaviour is undefined: the call
\* returns whatever it reads, or the caller does not return from it (a
\* kernel built with configASSERT stops there, a memory fault likewise).
getCount(t) ==
    /\ UNCHANGED notSem
    /\ Caller(t)
    /\ IF sem_
       THEN /\ last' = Result("getCount", t, TRUE, sCount)
            /\ UNCHANGED <<pc, nullHandle>>
       ELSE /\ nullHandle' = TRUE
            /\ \/ \E count \in UndefinedCounts :
                    /\ last' = Result("getCount", t, TRUE, count)
                    /\ pc' = pc
               \/ /\ last' = Result("getCount:fault", t, FALSE, 0)
                  /\ pc' = [pc EXCEPT ![t] = "fault"]
    /\ UNCHANGED <<cur, tstate, kprio, xYieldPending, sBase, sValid, type_,
                   permits_, maximum_, sem_, sCount, sLength, sWaiters,
                   xHigherPriorityTaskWoken_, count0, nAcq, nGive>>

\* ------------------------------------------------------------- MutexResource
\* What no operation of the mutex touches.
notMtx == <<xTickCount, semVars, thrVars, poolVars>>

\* MutexResource::initialize(): xSemaphoreCreateRecursiveMutexStatic(&buffer_)
\* returns the handle of the mutex built in the buffer it is given.
Mutex_initialize == TRUE

\* MutexResource::construct()
Mutex_construct(base) == base /\ Mutex_initialize

MutexConstructed(base) ==
    /\ mValid = Mutex_construct(base)
    /\ mutex_ = (base /\ Mutex_initialize)
    /\ mHolder = NoTask
    /\ mDepth = 0
    /\ mWaiters = <<>>
    /\ held = [t \in Tasks |-> 0]
    /\ nested = [t \in Tasks |-> 0]

\* xTaskPriorityInherit(): a holder of lower priority than the task about to
\* block on the mutex runs at that task's priority.
PriorityInherit(kp, holder, t) ==
    IF holder # NoTask /\ kp[holder] < kp[t]
    THEN [kp EXCEPT ![holder] = kp[t]]
    ELSE kp

\* lock() returning true from a take that does not wait for the holder: the
\* variant with no block time and an untested result.
LockBlock_noWait(t) ==
    /\ held' = [held EXCEPT ![t] = @ + 1]
    /\ pc' = [pc EXCEPT ![t] = "run"]
    /\ last' = Result("lock", t, TRUE, 0)
    /\ UNCHANGED <<cur, tstate, kprio, kbase, xYieldPending, mValid, mutex_,
                   mHolder, mDepth, mWaiters, nested>>

\* The running task blocks on the mutex held by another task:
\* xQueueSemaphoreTake() with portMAX_DELAY.
LockBlock(t) ==
    LET ts == [tstate EXCEPT ![t] = "blocked"]
        kp == PriorityInherit(kprio, mHolder, t)
    IN  /\ tstate' = ts
        /\ kprio' = kp
        /\ pc' = [pc EXCEPT ![t] = "lock"]
        /\ mWaiters' = ListInsert(mWaiters, t, kprio)
        /\ vTaskSwitchContext(ts, kp)
        /\ last' = Result("lock:wait", t, FALSE, 0)
        /\ UNCHANGED <<kbase, mValid, mutex_, mHolder, mDepth, held, nested>>

\* The variant of LockPass that does not count the levels.
LockPass_flat(t) ==
    /\ mHolder' = t
    /\ mDepth' = 1
    /\ held' = [held EXCEPT ![t] = @ + 1]
    /\ nested' = [nested EXCEPT ![t] = IF held[t] = 0 \/ held[t] >= @
                                       THEN held[t] + 1 ELSE @]
    /\ pc' = [pc EXCEPT ![t] = "run"]
    /\ last' = Result("lock", t, TRUE, 0)
    /\ UNCHANGED <<cur, tstate, kprio, kbase, xYieldPending, mValid, mutex_,
                   mWaiters>>

\* xQueueTakeMutexRecursive() succeeds: the caller holds the mutex already,
\* or takes the free mutex; uxRecursiveCallCount goes up by one.
LockPass(t) ==
    /\ mHolder' = t
    /\ mDepth' = mDepth + 1
    /\ held' = [held EXCEPT ![t] = @ + 1]
    /\ nested' = [nested EXCEPT ![t] = IF held[t] = 0 \/ held[t] >= @
                                       THEN held[t] + 1 ELSE @]
    /\ pc' = [pc EXCEPT ![t] = "run"]
    /\ last' = Result("lock", t, TRUE, 0)
    /\ UNCHANGED <<cur, tstate, kprio, kbase, xYieldPending, mValid, mutex_,
                   mWaiters>>

\* lock() without its test of isConstructed().
lock_noValidTest(t) ==
    /\ Caller(t)
    /\ held[t] < MaxDepth
    /\ UNCHANGED notMtx
    /\ IF mHolder \in {t, NoTask} THEN LockPass(t) ELSE LockBlock(t)

\* lock(): false on an object that is not constructed, else
\* xSemaphoreTakeRecursive(mutex_, portMAX_DELAY).
lock(t) ==
    /\ Caller(t)
    /\ held[t] < MaxDepth
    /\ UNCHANGED notMtx
    /\ IF ~mValid
       THEN /\ last' = Result("lock", t, FALSE, 0)
            /\ UNCHANGED <<cur, tstate, kprio, kbase, xYieldPending, pc,
                           mtxVars>>
       ELSE IF mHolder \in {t, NoTask} THEN LockPass(t) ELSE LockBlock(t)

\* A task woken inside xQueueSemaphoreTake() runs again: it takes the mutex
\* if it is still free and blocks again otherwise.
lockResume(t) ==
    /\ t = cur
    /\ t \in Tasks
    /\ pc[t] = "lock"
    /\ UNCHANGED notMtx
    /\ IF mHolder = NoTask THEN LockPass(t) ELSE LockBlock(t)

\* tryLock() as a take that does not wait: it takes the mutex when that is
\* free or the caller's own.
tryLock_zeroWait(t) ==
    /\ Caller(t)
    /\ IF mValid /\ mHolder \in {t, NoTask} /\ mDepth < MaxDepth
       THEN /\ mHolder' = t
            /\ mDepth' = mDepth + 1
            /\ last' = Result("tryLock", t, TRUE, 0)
            /\ UNCHANGED <<mValid, mutex_, mWaiters, held, nested>>
       ELSE /\ last' = Result("tryLock", t, FALSE, 0)
            /\ UNCHANGED mtxVars
    /\ UNCHANGED <<cur, tstate, kprio, kbase, xYieldPending, pc, notMtx>>

\* tryLock(): false.
tryLock(t) ==
    /\ Caller(t)
    /\ last' = Result("tryLock", t, FALSE, 0)
    /\ UNCHANGED <<cur, tstate, kprio, kbase, xYieldPending, pc, mtxVars,
                   notMtx>>

\* unlock() returns false: the object is not constructed, or
\* xQueueGiveMutexRecursive() finds that the caller is not the holder.  The
\* first definition is the variant without the holder test.
UnlockRefused_noHolderTest(t) == ~mValid \/ mHolder = NoTask

UnlockRefused(t) == ~mValid \/ mHolder # t

\* unlock(): false on an object that is not constructed, else
\* xSemaphoreGiveRecursive(mutex_): pdFAIL unless the caller is the holder;
\* uxRecursiveCallCount goes down by one and at zero the mutex is given: the
\* holder gets its base priority back, the first waiter is readied and the
\* caller yields when that waiter is of higher priority or its own priority
\* has dropped.
unlock(t) ==
    /\ Caller(t)
    /\ UNCHANGED notMtx
    /\ IF UnlockRefused(t)
       THEN /\ last' = Result("unlock", t, FALSE, 0)
            /\ UNCHANGED <<cur, tstate, kprio, kbase, xYieldPending, pc,
                           mtxVars>>
       ELSE /\ last' = Result("unlock", t, TRUE, 0)
            /\ held' = [held EXCEPT ![t] = @ - 1]
            /\ mDepth' = mDepth - 1
            /\ UNCHANGED <<kbase, pc, mValid, mutex_, nested>>
            /\ IF mDepth > 1
               THEN UNCHANGED <<cur, tstate, kprio, xYieldPending, mHolder,
                                mWaiters>>
               ELSE LET kp == [kprio EXCEPT ![t] = kbase[t]]
                        ts == IF mWaiters = <<>> THEN tstate
                              ELSE [tstate EXCEPT ![Head(mWaiters)] = "ready"]
                        xYieldRequired ==
                            \/ kp # kprio
                            \/ mWaiters # <<>> /\ kp[Head(mWaiters)] > kp[t]
                    IN  /\ mHolder' = NoTask
                        /\ kprio' = kp
                        /\ tstate' = ts
                        /\ mWaiters' = IF mWaiters = <<>> THEN <<>>
                                       ELSE Tail(mWaiters)
                        /\ IF xYieldRequired
                           THEN vTaskSwitchContext(ts, kp)
                           ELSE UNCHANGED <<cur, xYieldPending>>

\* ------------------------------------------------------------ ThreadResource
STATUS_NEW == "STATUS_NEW"
STATUS_RUNNABLE == "STATUS_RUNNABLE"
STATUS_DEAD == "STATUS_DEAD"

\* api::Thread priorities.
PRIORITY_WRONG == -1
PRIORITY_IDLE == 0
PRIORITY_MIN == 1
PRIORITY_NORM == 5
PRIORITY_MAX == 10

\* Values of configMAX_PRIORITIES the kernel is built with.
MaxPrioritiesConfigs == {PRIORITY_MAX, PRIORITY_MAX + 1}
\* Arguments setPriority() is called with.
PriorityArgs == {PRIORITY_WRONG, PRIORITY_IDLE, PRIORITY_MIN, PRIORITY_MAX,
                 PRIORITY_MAX + 1}
\* The tasks that use the ThreadResource, and their kernel priorities.
ThreadClients == {"t1", "t2"}
ThreadClientPriorities ==
    {[t1 |-> 1, t2 |-> 5, t3 |-> 0, th |-> 0],
     [t1 |-> 5, t2 |-> 5, t3 |-> 0, th |-> 0],
     [t1 |-> 5, t2 |-> 10, t3 |-> 0, th |-> 0]}

\* What no operation of the thread touches.
notThr == <<xTickCount, semVars, mtxVars, poolVars>>

\* construct(): the status and the validity construction leaves.  The first
\* definition is the variant without the test of task_->isConstructed().
Thread_construct_noTaskTest(base, configMAX_PRIORITIES, taskConstructed) ==
    IF base /\ PRIORITY_MAX < configMAX_PRIORITIES
    THEN [valid |-> TRUE, status |-> STATUS_NEW]
    ELSE [valid |-> FALSE, status |-> STATUS_DEAD]

Thread_construct(base, configMAX_PRIORITIES, taskConstructed) ==
    IF base /\ PRIORITY_MAX < configMAX_PRIORITIES /\ taskConstructed
    THEN [valid |-> TRUE, status |-> STATUS_NEW]
    ELSE [valid |-> FALSE, status |-> STATUS_DEAD]

\* ThreadResource(api::Task& task)
ThreadConstructed(base, configMAX_PRIORITIES, taskConstructed) ==
    LET obj == Thread_construct(base, configMAX_PRIORITIES, taskConstructed)
    IN  /\ thBase = base
        /\ taskOk = taskConstructed
        /\ thValid = obj.valid
        /\ status_ = obj.status
        /\ priority_ = PRIORITY_NORM
        /\ thread_ = FALSE
        /\ alive = TRUE
        /\ execFailed = FALSE
        /\ nCreate = 0
        /\ nBody = 0
        /\ nBodyRet = 0
        /\ nDelete = 0

\* isPriority() with the upper bound of the range off by one.
isPriority_offByOne(priority) ==
    IF PRIORITY_MIN <= priority /\ priority <= PRIORITY_MAX + 1 THEN TRUE
    ELSE IF priority = PRIORITY_IDLE THEN TRUE
    ELSE FALSE

\* isPriority()
isPriority(priority) ==
    IF PRIORITY_MIN <= priority /\ priority <= PRIORITY_MAX THEN TRUE
    ELSE IF priority = PRIORITY_IDLE THEN TRUE
    ELSE FALSE

\* convertPriority(): static_cast<::UBaseType_t>(priority), the unsigned
\* value held by its bits.
convertPriority(priority) == priority

\* An operation of a client on the thread object: the object exists and no
\* other call of execute() on it is under way.
ThreadCaller(t) ==
    /\ Caller(t)
    /\ t \in ThreadClients
    /\ alive
    /\ \A u \in Tasks : pc[u] # "execute"

\* execute() when xTaskCreateStatic() returned NULL: thread_ is NULL, the
\* status is left alone and the result is false.  The first definition is
\* the variant that declares the thread dead.
ExecuteNoHandle_dead(t) ==
    /\ thread_' = FALSE
    /\ execFailed' = TRUE
    /\ status_' = STATUS_DEAD
    /\ last' = Result("execute", t, FALSE, 0)
    /\ UNCHANGED <<cur, tstate, kprio, kbase, xYieldPending, pc, thBase,
                   taskOk, thValid, alive, priority_, thrHist>>

ExecuteNoHandle(t) ==
    /\ thread_' = FALSE
    /\ execFailed' = TRUE
    /\ last' = Result("execute", t, FALSE, 0)
    /\ UNCHANGED <<cur, tstate, kprio, kbase, xYieldPending, pc, thBase,
                   taskOk, thValid, alive, status_, priority_, thrHist>>

\* execute() without the test of the status: the variant that creates a
\* kernel task at every call on a constructed object.
execute_noStatusTest(t) ==
    /\ ThreadCaller(t)
    /\ UNCHANGED notThr
    /\ IF ~thValid
       THEN /\ last' = Result("execute", t, FALSE, 0)
            /\ UNCHANGED <<cur, tstate, kprio, kbase, xYieldPending, pc,
                           thrVars>>
       ELSE LET ts == [tstate EXCEPT ![Th] = "ready"]
                kp == [kprio EXCEPT ![Th] = convertPriority(priority_)]
            IN  /\ tstate' = ts
                /\ kprio' = kp
                /\ kbase' = [kbase EXCEPT ![Th] = convertPriority(priority_)]
                /\ pc' = [pc EXCEPT ![Th] = "entry", ![t] = "execute"]
                /\ IF kp[Th] > kp[t]
                   THEN vTaskSwitchContext(ts, kp)
                   ELSE UNCHANGED <<cur, xYieldPending>>
                /\ last' = Result("execute:created", t, FALSE, 0)
                /\ nCreate' = nCreate + 1
                /\ UNCHANGED <<thBase, taskOk, thValid, alive, status_,
                               priority_, thread_, execFailed, nBody,
                               nBodyRet, nDelete>>

\* execute() up to the return of xTaskCreateStatic(): false when the object
\* is not constructed or the status is not NEW; when the kernel returns no
\* handle, thread_ is NULL and the result false; else the kernel has made
\* the task ready at convertPriority(priority_) and, the new task being of
\* higher priority than the caller, has switched to it before returning.
execute(t) ==
    /\ ThreadCaller(t)
    /\ UNCHANGED notThr
    /\ IF ~thValid \/ status_ # STATUS_NEW
       THEN /\ last' = Result("execute", t, FALSE, 0)
            /\ UNCHANGED <<cur, tstate, kprio, kbase, xYieldPending, pc,
                           thrVars>>
       ELSE \E created \in BOOLEAN :
            IF ~created
            THEN ExecuteNoHandle(t)
            ELSE LET ts == [tstate EXCEPT ![Th] = "ready"]
                     kp == [kprio EXCEPT ![Th] = convertPriority(priority_)]
                 IN  /\ tstate' = ts
                     /\ kprio' = kp
                     /\ kbase' = [kbase EXCEPT
                                    ![Th] = convertPriority(priority_)]
                     /\ pc' = [pc EXCEPT ![Th] = "entry", ![t] = "execute"]
                     /\ IF kp[Th] > kp[t]
                        THEN vTaskSwitchContext(ts, kp)
                        ELSE UNCHANGED <<cur, xYieldPending>>
                     /\ last' = Result("execute:created", t, FALSE, 0)
                     /\ nCreate' = nCreate + 1
                     /\ UNCHANGED <<thBase, taskOk, thValid, alive, status_,
                                    priority_, thread_, execFailed, nBody,
                                    nBodyRet, nDelete>>

\* execute() from the return of xTaskCreateStatic() with a handle: thread_ is
\* the handle, the status RUNNABLE and the result true.
executeReturn(t) ==
    /\ t = cur
    /\ pc[t] = "execute"
    /\ thread_' = TRUE
    /\ status_' = STATUS_RUNNABLE
    /\ pc' = [pc EXCEPT ![t] = "run"]
    /\ last' = Result("execute", t, TRUE, 0)
    /\ UNCHANGED <<cur, tstate, kprio, kbase, xYieldPending, thBase, taskOk,
                   thValid, alive, priority_, execFailed, thrHist, notThr>>

\* start() setting the status to DEAD before it calls task_->start(): the
\* variant with the two statements in the other order.
start_deadFirst(t) ==
    /\ t = cur
    /\ t = Th
    /\ pc[t] = "entry"
    /\ pc' = [pc EXCEPT ![t] = "run"]
    /\ last' = Result("start:body", t, TRUE, 0)
    /\ nBody' = nBody + 1
    /\ status_' = STATUS_DEAD
    /\ UNCHANGED <<cur, tstate, xYieldPending, kprio, kbase, thBase, taskOk,
                   thValid, alive, priority_, thread_, execFailed, nCreate,
                   nBodyRet, nDelete, notThr>>

\* start() setting the status to DEAD on the way to vTaskSuspend(NULL) also
\* when it did not call task_->start().
start_deadOnSkip(t) ==
    /\ t = cur
    /\ t = Th
    /\ pc[t] = "entry"
    /\ IF thValid /\ taskOk
       THEN /\ pc' = [pc EXCEPT ![t] = "run"]
            /\ last' = Result("start:body", t, TRUE, 0)
            /\ nBody' = nBody + 1
            /\ UNCHANGED <<cur, tstate, xYieldPending, status_>>
       ELSE LET ts == [tstate EXCEPT ![t] = "suspended"]
            IN  /\ pc' = [pc EXCEPT ![t] = "parked"]
                /\ tstate' = ts
                /\ vTaskSwitchContext(ts, kprio)
                /\ last' = Result("start:parked", t, FALSE, 0)
                /\ status_' = STATUS_DEAD
                /\ UNCHANGED nBody
    /\ UNCHANGED <<kprio, kbase, thBase, taskOk, thValid, alive,
                   priority_, thread_, execFailed, nCreate, nBodyRet,
                   nDelete, notThr>>

\* The client's task object stops being constructed: from here on
\* task_->isConstructed(), which the trampoline reads, is false.
Task_unconstruct ==
    /\ alive
    /\ taskOk
    /\ taskOk' = FALSE
    /\ last' = Result("Task.unconstruct", "none", TRUE, 0)
    /\ UNCHANGED <<cur, tstate, kprio, kbase, xYieldPending, pc, thBase,
                   thValid, alive, status_, priority_, thread_, execFailed,
                   thrHist, notThr>>

\* start(): the kernel task enters the trampoline; with the thread and its
\* task constructed it calls task_->start(), else it goes on to
\* vTaskSuspend(NULL).
start(t) ==
    /\ t = cur
    /\ t = Th
    /\ pc[t] = "entry"
    /\ IF thValid /\ taskOk
       THEN /\ pc' = [pc EXCEPT ![t] = "run"]
            /\ last' = Result("start:body", t, TRUE, 0)
            /\ nBody' = nBody + 1
            /\ UNCHANGED <<cur, tstate, xYieldPending>>
       ELSE LET ts == [tstate EXCEPT ![t] = "suspended"]
            IN  /\ pc' = [pc EXCEPT ![t] = "parked"]
                /\ tstate' = ts
                /\ vTaskSwitchContext(ts, kprio)
                /\ last' = Result("start:parked", t, FALSE, 0)
                /\ UNCHANGED nBody
    /\ UNCHANGED <<kprio, kbase, thBase, taskOk, thValid, alive, status_,
                   priority_, thread_, execFailed, nCreate, nBodyRet,
                   nDelete, notThr>>

\* start(): task_->start() returns and the status is set to DEAD.
startReturn(t) ==
    /\ Running(t)
    /\ t = Th
    /\ status_' = STATUS_DEAD
    /\ pc' = [pc EXCEPT ![t] = "dead"]
    /\ last' = Result("start:return", t, TRUE, 0)
    /\ nBodyRet' = nBodyRet + 1
    /\ UNCHANGED <<cur, tstate, kprio, kbase, xYieldPending, thBase, taskOk,
                   thValid, alive, priority_, thread_, execFailed, nCreate,
                   nBody, nDelete, notThr>>

\* start(): vTaskSuspend(NULL) after the status was set.
startSuspend(t) ==
    /\ t = cur
    /\ t = Th
    /\ pc[t] = "dead"
    /\ LET ts == [tstate EXCEPT ![t] = "suspended"]
       IN  /\ tstate' = ts
           /\ vTaskSwitchContext(ts, kprio)
    /\ pc' = [pc EXCEPT ![t] = "parked"]
    /\ last' = Result("start:parked", t, TRUE, 0)
    /\ UNCHANGED <<kprio, kbase, thrVars, notThr>>

\* join() up to its first taskYIELD(): false unless the object is
\* constructed and the status RUNNABLE.
join(t) ==
    /\ ThreadCaller(t)
    /\ IF thValid /\ status_ = STATUS_RUNNABLE
       THEN /\ pc' = [pc EXCEPT ![t] = "join"]
            /\ vTaskSwitchContext(tstate, kprio)
            /\ last' = Result("join:wait", t, FALSE, 0)
       ELSE /\ last' = Result("join", t, FALSE, 0)
            /\ UNCHANGED <<cur, xYieldPending, pc>>
    /\ UNCHANGED <<tstate, kprio, kbase, thrVars, notThr>>

\* join() leaving its loop at the first turn: the variant without the test
\* of the status.
joinPoll_noStatusTest(t) ==
    /\ t = cur
    /\ pc[t] = "join"
    /\ pc' = [pc EXCEPT ![t] = "run"]
    /\ last' = Result("join", t, TRUE, 0)
    /\ UNCHANGED <<cur, xYieldPending, tstate, kprio, kbase, thrVars, notThr>>

\* join(), one more turn of its loop: true when the status is DEAD, else
\* taskYIELD().
joinPoll(t) ==
    /\ t = cur
    /\ pc[t] = "join"
    /\ IF status_ = STATUS_DEAD
       THEN /\ pc' = [pc EXCEPT ![t] = "run"]
            /\ last' = Result("join", t, TRUE, 0)
            /\ UNCHANGED <<cur, xYieldPending>>
       ELSE /\ vTaskSwitchContext(tstate, kprio)
            /\ last' = Result("join:wait", t, FALSE, 0)
            /\ UNCHANGED pc
    /\ UNCHANGED <<tstate, kprio, kbase, thrVars, notThr>>

\* getPriority()
getPriority(t) ==
    /\ ThreadCaller(t)
    /\ last' = Result("getPriority", t, TRUE,
                      IF thValid THEN priority_ ELSE PRIORITY_WRONG)
    /\ UNCHANGED <<cur, tstate, kprio, kbase, xYieldPending, pc, thrVars,
                   notThr>>

\* setPriority() that passes the priority to the kernel and does not store
\* it: the variant without the assignment of priority_ in status RUNNABLE.
setPriority_noStore(t, priority) ==
    /\ ThreadCaller(t)
    /\ last' = Result("setPriority", t, FALSE, 0)
    /\ IF thValid /\ isPriority(priority) /\ status_ = STATUS_RUNNABLE
       THEN LET kp == [kprio EXCEPT ![Th] = convertPriority(priority)]
            IN  /\ kprio' = kp
                /\ kbase' = [kbase EXCEPT ![Th] = convertPriority(priority)]
                /\ priority_' = priority_
                /\ IF kp[Th] > kbase[Th] /\ kp[Th] >= kp[t]
                   THEN vTaskSwitchContext(tstate, kp)
                   ELSE UNCHANGED <<cur, xYieldPending>>
       ELSE /\ priority_' = IF thValid /\ isPriority(priority)
                               /\ status_ = STATUS_NEW
                            THEN priority ELSE priority_
            /\ UNCHANGED <<cur, kprio, kbase, xYieldPending>>
    /\ UNCHANGED <<tstate, pc, thBase, taskOk, thValid, alive, status_,
                   thread_, execFailed, thrHist, notThr>>

\* setPriority(): on a constructed object and with a priority isPriority()
\* accepts, in status RUNNABLE vTaskPrioritySet(thread_, priority), the
\* caller yielding when the task is raised to at least its own priority, and
\* priority_ is set; in status NEW priority_ is set.  res stays false.
setPriority(t, priority) ==
    /\ ThreadCaller(t)
    /\ last' = Result("setPriority", t, FALSE, 0)
    /\ IF thValid /\ isPriority(priority) /\ status_ = STATUS_RUNNABLE
       THEN LET kp == [kprio EXCEPT ![Th] = convertPriority(priority)]
            IN  /\ kprio' = kp
                /\ kbase' = [kbase EXCEPT ![Th] = convertPriority(priority)]
                /\ priority_' = priority
                /\ IF kp[Th] > kbase[Th] /\ kp[Th] >= kp[t]
                   THEN vTaskSwitchContext(tstate, kp)
                   ELSE UNCHANGED <<cur, xYieldPending>>
       ELSE /\ priority_' = IF thValid /\ isPriority(priority)
                               /\ status_ = STATUS_NEW
                            THEN priority ELSE priority_
            /\ UNCHANGED <<cur, kprio, kbase, xYieldPending>>
    /\ UNCHANGED <<tstate, pc, thBase, taskOk, thValid, alive, status_,
                   thread_, execFailed, thrHist, notThr>>

\* ~ThreadResource() that calls vTaskDelete(thread_) whatever thread_ is:
\* the variant without the test of the handle.
Thread_destructor_noHandleTest(t) ==
    /\ ThreadCaller(t)
    /\ alive' = FALSE
    /\ last' = Result("~ThreadResource", t, thread_, 0)
    /\ tstate' = [tstate EXCEPT ![Th] = "deleted"]
    /\ pc' = [pc EXCEPT ![Th] = "deleted"]
    /\ status_' = STATUS_DEAD
    /\ nDelete' = nDelete + 1
    /\ UNCHANGED <<cur, kprio, kbase, xYieldPending, thBase, taskOk, thValid,
                   priority_, thread_, execFailed, nCreate, nBody, nBodyRet,
                   notThr>>

\* ~ThreadResource(): with a handle in thread_, vTaskDelete(thread_) and the
\* status is set to DEAD.
Thread_destructor(t) ==
    /\ ThreadCaller(t)
    /\ alive' = FALSE
    /\ last' = Result("~ThreadResource", t, thread_, 0)
    /\ IF thread_
       THEN /\ tstate' = [tstate EXCEPT ![Th] = "deleted"]
            /\ pc' = [pc EXCEPT ![Th] = "deleted"]
            /\ status_' = STATUS_DEAD
            /\ nDelete' = nDelete + 1
       ELSE UNCHANGED <<tstate, pc, status_, nDelete>>
    /\ UNCHANGED <<cur, kprio, kbase, xYieldPending, thBase, taskOk, thValid,
                   priority_, thread_, execFailed, nCreate, nBody, nBodyRet,
                   notThr>>

\* ----------------------------------------------------- Scheduler::ResourcePool
\* The slots of lib::ResourceMemory<Resource, EOOS_GLOBAL_SYS_NUMBER_OF_THREADS>.
Slots == 1..NUMBER_OF_THREADS
\* allocate() finding no slot.
NONE == 0

\* The tasks that call the scheduler, and their kernel priorities.
PoolClients == {"t1", "t2"}
PoolClientPriorities ==
    {[t1 |-> 1, t2 |-> 1, t3 |-> 0, th |-> 0],
     [t1 |-> 1, t2 |-> 2, t3 |-> 0, th |-> 0]}

\* What the operations on the pool leave alone besides the mutex.
notPool == <<xTickCount, semVars, thrVars>>
\* The scheduler state a step inside the pool leaves alone.
schedVars == <<cur, tstate, kprio, kbase, xYieldPending, pc>>

\* A task that is in no operation of the scheduler.
NoCall == [op |-> "none", at |-> "none", slot |-> NONE]

\* ResourcePool(): every slot free, no thread made.
PoolConstructed ==
    /\ used = [i \in Slots |-> FALSE]
    /\ owner = [i \in Slots |-> NoTask]
    /\ thr = [i \in Slots |-> "none"]
    /\ call = [t \in Tasks |-> NoCall]
    /\ nOut = 0
    /\ nLive = 0
    /\ exhausted = FALSE

\* A task inside an operation on the pool whose lock() on the pool's mutex
\* has returned true and whose unlock() has not.
InPool(t) == call[t].op # "none" /\ held[t] > 0

\* createThread(task) is called: the thread is to be made in a slot of the
\* pool, which is entered under the pool's mutex.
createThread(t) ==
    /\ Caller(t)
    /\ call[t] = NoCall
    /\ call' = [call EXCEPT ![t] = [op |-> "createThread", at |-> "lock",
                                    slot |-> NONE]]
    /\ last' = Result("createThread:call", t, FALSE, 0)
    /\ UNCHANGED <<schedVars, mtxVars, used, owner, thr, nOut, nLive,
                   exhausted, notPool>>

\* The pool's mutex_ is locked on the way into the pool.
Pool_lock(t) ==
    /\ call[t].at = "lock"
    /\ held[t] = 0
    /\ lock(t)

\* The pool's mutex_ is unlocked on the way out of the pool.
Pool_unlock(t) ==
    /\ call[t].at = "unlock"
    /\ held[t] > 0
    /\ unlock(t)

\* allocate() looking for a free slot: one of the free slots is found, or
\* NONE when all of them are in use.  The first definition is the variant
\* that takes a slot without looking at its marker.
allocateScan_anySlot(t) ==
    /\ Running(t)
    /\ t \in Tasks
    /\ call[t].op = "createThread"
    /\ call[t].at = "lock"
    /\ held[t] > 0
    /\ \E i \in Slots :
         /\ call' = [call EXCEPT ![t].at = "mark", ![t].slot = i]
         /\ last' = Result("allocate:scan", t, TRUE, i)
    /\ UNCHANGED <<schedVars, mtxVars, used, owner, thr, nOut, nLive,
                   exhausted, notPool>>

allocateScan(t) ==
    /\ Running(t)
    /\ t \in Tasks
    /\ call[t].op = "createThread"
    /\ call[t].at = "lock"
    /\ held[t] > 0
    /\ IF \E i \in Slots : ~used[i]
       THEN \E i \in Slots :
              /\ ~used[i]
              /\ call' = [call EXCEPT ![t].at = "mark", ![t].slot = i]
              /\ last' = Result("allocate:scan", t, TRUE, i)
              /\ UNCHANGED exhausted
       ELSE /\ call' = [call EXCEPT ![t].at = "unlock", ![t].slot = NONE]
            /\ last' = Result("allocate", t, FALSE, NONE)
            /\ exhausted' = TRUE
    /\ UNCHANGED <<schedVars, mtxVars, used, owner, thr, nOut, nLive,
                   notPool>>

\* allocate() marking the slot it found as used and returning it.
allocateMark(t) ==
    /\ Running(t)
    /\ t \in Tasks
    /\ call[t].at = "mark"
    /\ used' = [used EXCEPT ![call[t].slot] = TRUE]
    /\ nOut' = nOut + 1
    /\ call' = [call EXCEPT ![t].at = "unlock"]
    /\ last' = Result("allocate", t, TRUE, call[t].slot)
    /\ UNCHANGED <<schedVars, mtxVars, owner, thr, nLive, exhausted,
                   notPool>>

\* createThread() past the pool: null when there was no slot, else a
\* thread is constructed over the task in the slot, in the status
\* construct() leaves, and returned.
createThreadReturn(t) ==
    /\ Running(t)
    /\ t \in Tasks
    /\ call[t].op = "createThread"
    /\ call[t].at = "unlock"
    /\ held[t] = 0
    /\ call' = [call EXCEPT ![t] = NoCall]
    /\ IF call[t].slot = NONE
       THEN /\ last' = Result("createThread", t, FALSE, NONE)
            /\ UNCHANGED <<owner, thr, nLive>>
       ELSE \E taskConstructed \in BOOLEAN :
            /\ thr' = [thr EXCEPT ![call[t].slot] =
                         Thread_construct(TRUE, PRIORITY_MAX + 1,
                                          taskConstructed).status]
            /\ owner' = [owner EXCEPT ![call[t].slot] = t]
            /\ nLive' = nLive + 1
            /\ last' = Result("createThread", t, TRUE, call[t].slot)
    /\ UNCHANGED <<schedVars, mtxVars, used, nOut, exhausted, notPool>>

\* execute() of the thread in a slot, by the task that holds it: the status
\* goes from NEW to RUNNABLE when the kernel creates the task.
Resource_execute(t, i) ==
    /\ Caller(t)
    /\ call[t] = NoCall
    /\ owner[i] = t
    /\ \E created \in BOOLEAN :
         LET res == thr[i] = STATUS_NEW /\ created
         IN  /\ thr' = [thr EXCEPT ![i] = IF res THEN STATUS_RUNNABLE ELSE @]
             /\ last' = Result("Resource.execute", t, res, i)
    /\ UNCHANGED <<schedVars, mtxVars, used, owner, call, nOut, nLive,
                   exhausted, notPool>>

\* The thread in a slot is deleted by the task that holds it: the object is
\* destroyed and its slot goes back to the pool, entered under the mutex.
deleteThread(t, i) ==
    /\ Caller(t)
    /\ call[t] = NoCall
    /\ owner[i] = t
    /\ thr' = [thr EXCEPT ![i] = "none"]
    /\ owner' = [owner EXCEPT ![i] = NoTask]
    /\ nLive' = nLive - 1
    /\ call' = [call EXCEPT ![t] = [op |-> "free", at |-> "lock", slot |-> i]]
    /\ last' = Result("deleteThread", t, TRUE, i)
    /\ UNCHANGED <<schedVars, mtxVars, used, nOut, exhausted, notPool>>

\* free(): the slot is marked free; a slot that is free already is left so.
free(t) ==
    /\ Running(t)
    /\ t \in Tasks
    /\ call[t].op = "free"
    /\ call[t].at = "lock"
    /\ held[t] > 0
    /\ used' = [used EXCEPT ![call[t].slot] = FALSE]
    /\ nOut' = IF used[call[t].slot] THEN nOut - 1 ELSE nOut
    /\ call' = [call EXCEPT ![t].at = "unlock"]
    /\ last' = Result("free", t, used[call[t].slot], call[t].slot)
    /\ UNCHANGED <<schedVars, mtxVars, owner, thr, nLive, exhausted,
                   notPool>>

\* The deletion of a thread past the pool.
freeReturn(t) ==
    /\ Running(t)
    /\ t \in Tasks
    /\ call[t].op = "free"
    /\ call[t].at = "unlock"
    /\ held[t] = 0
    /\ call' = [call EXCEPT ![t] = NoCall]
    /\ last' = Result("deleteThread:return", t, TRUE, call[t].slot)
    /\ UNCHANGED <<schedVars, mtxVars, used, owner, thr, nOut, nLive,
                   exhausted, notPool>>

\* The kernel has started with the client tasks ready and the highest one
\* running.
KernelStarted ==
    /\ kprio \in TaskPriorities
    /\ kbase = kprio
    /\ tstate = [t \in AllTasks |-> IF t \in Tasks THEN "ready" ELSE "none"]
    /\ cur \in SelectHighest(tstate, kprio)
    /\ xYieldPending = FALSE
    /\ xTickCount = 0
    /\ pc = [t \in AllTasks |-> IF t \in Tasks THEN "run" ELSE "none"]
    /\ last = Result("construct", "none", TRUE, 0)

\* The semaphore, the mutex or the thread of a specification that does not
\* use it: never constructed.
NoSemaphore ==
    SemConstructed(FALSE, [type |-> TYPE_BINARY, permits |-> 0, maximum |-> 0],
                   [valid |-> FALSE, handle |-> FALSE, count |-> 0,
                    length |-> 0])

NoMutex ==
    /\ mValid = FALSE
    /\ mutex_ = FALSE
    /\ mHolder = NoTask
    /\ mDepth = 0
    /\ mWaiters = <<>>
    /\ held = [t \in Tasks |-> 0]
    /\ nested = [t \in Tasks |-> 0]

NoThread ==
    /\ thBase = FALSE
    /\ taskOk = FALSE
    /\ thValid = FALSE
    /\ alive = FALSE
    /\ status_ = STATUS_DEAD
    /\ priority_ = PRIORITY_NORM
    /\ thread_ = FALSE
    /\ execFailed = FALSE
    /\ nCreate = 0
    /\ nBody = 0
    /\ nBodyRet = 0
    /\ nDelete = 0

InitSem ==
    /\ KernelStarted
    /\ NoMutex
    /\ NoThread
    /\ PoolConstructed
    /\ \E base \in BOOLEAN, a \in CtorArgs :
         \E obj \in construct(base, a.type, a.permits, a.maximum) :
            SemConstructed(base, a, obj)

NextSem ==
    \/ \E t \in Tasks : acquire(t)
    \/ \E t \in Tasks : acquireResume(t)
    \/ \E t \in Tasks : release(t)
    \/ releaseFromInterrupt
    \/ hasToSwitchContex
    \/ \E t \in Tasks : getCount(t)
    \/ \E t \in Tasks : sleep(t)
    \/ \E t \in Tasks : yield(t)
    \/ SchedulerRoutineTimer_start
    \/ SchedulerRoutineSvcall_start

SpecSem == InitSem /\ [][NextSem]_vars

InitMutex ==
    /\ KernelStarted
    /\ NoSemaphore
    /\ NoThread
    /\ PoolConstructed
    /\ \E base \in BOOLEAN : MutexConstructed(base)

NextMutex ==
    \/ \E t \in Tasks : lock(t)
    \/ \E t \in Tasks : lockResume(t)
    \/ \E t \in Tasks : unlock(t)
    \/ \E t \in Tasks : tryLock(t)
    \/ \E t \in Tasks : sleep(t)
    \/ \E t \in Tasks : yield(t)
    \/ SchedulerRoutineTimer_start
    \/ SchedulerRoutineSvcall_start

SpecMutex == InitMutex /\ [][NextMutex]_vars

\* The kernel has started with the clients of the thread ready.
InitThread ==
    /\ kprio \in ThreadClientPriorities
    /\ kbase = kprio
    /\ tstate = [t \in AllTasks |->
                    IF t \in ThreadClients THEN "ready" ELSE "none"]
    /\ cur \in SelectHighest(tstate, kprio)
    /\ xYieldPending = FALSE
    /\ xTickCount = 0
    /\ pc = [t \in AllTasks |-> IF t \in ThreadClients THEN "run" ELSE "none"]
    /\ last = Result("construct", "none", TRUE, 0)
    /\ NoSemaphore
    /\ NoMutex
    /\ PoolConstructed
    /\ \E base \in BOOLEAN, cfg \in MaxPrioritiesConfigs,
          taskConstructed \in BOOLEAN :
            ThreadConstructed(base, cfg, taskConstructed)

NextThread ==
    \/ \E t \in Tasks : execute(t)
    \/ \E t \in Tasks : executeReturn(t)
    \/ \E t \in AllTasks : start(t)
    \/ \E t \in AllTasks : startReturn(t)
    \/ \E t \in AllTasks : startSuspend(t)
    \/ \E t \in Tasks : join(t)
    \/ \E t \in Tasks : joinPoll(t)
    \/ \E t \in Tasks : getPriority(t)
    \/ \E t \in Tasks, p \in PriorityArgs : setPriority(t, p)
    \/ \E t \in Tasks : Thread_destructor(t)
    \/ \E t \in AllTasks : sleep(t)
    \/ \E t \in AllTasks : yield(t)
    \/ SchedulerRoutineTimer_start
    \/ SchedulerRoutineSvcall_start

SpecThread == InitThread /\ [][NextThread]_vars

\* The scheduler with its pool of threads and the pool's mutex.
InitPool ==
    /\ kprio \in PoolClientPriorities
    /\ kbase = kprio
    /\ tstate = [t \in AllTasks |->
                    IF t \in PoolClients THEN "ready" ELSE "none"]
    /\ cur \in SelectHighest(tstate, kprio)
    /\ xYieldPending = FALSE
    /\ xTickCount = 0
    /\ pc = [t \in AllTasks |-> IF t \in PoolClients THEN "run" ELSE "none"]
    /\ last = Result("construct", "none", TRUE, 0)
    /\ NoSemaphore
    /\ NoThread
    /\ MutexConstructed(TRUE)
    /\ PoolConstructed

NextPool ==
    \/ \E t \in Tasks : createThread(t)
    \/ \E t \in Tasks : Pool_lock(t)
    \/ \E t \in Tasks : lockResume(t)
    \/ \E t \in Tasks : allocateScan(t)
    \/ \E t \in Tasks : allocateMark(t)
    \/ \E t \in Tasks : Pool_unlock(t)
    \/ \E t \in Tasks : createThreadReturn(t)
    \/ \E t \in Tasks, i \in Slots : Resource_execute(t, i)
    \/ \E t \in Tasks, i \in Slots : deleteThread(t, i)
    \/ \E t \in Tasks : free(t)
    \/ \E t \in Tasks : freeReturn(t)
    \/ \E t \in Tasks : call[t] = NoCall /\ sleep(t)
    \/ \E t \in Tasks : call[t] = NoCall /\ yield(t)
    \/ SchedulerRoutineTimer_start
    \/ SchedulerRoutineSvcall_start

SpecPool == InitPool /\ [][NextPool]_vars

\* Arguments the semaphore that stands beside a mutex and a thread is
\* constructed with: two that construct() accepts and two that it refuses.
ObjectsCtorArgs ==
    {[type |-> TYPE_BINARY, permits |-> 1, maximum |-> MAX_PERMITS],
     [type |-> TYPE_COUNTING, permits |-> 1, maximum |-> 2],
     [type |-> TYPE_BINARY, permits |-> 2, maximum |-> MAX_PERMITS],
     [type |-> TYPE_COUNTING, permits |-> -1, maximum |-> 1]}

\* The thread with a client task object whose isConstructed() may turn false
\* after the thread was constructed over it.
NextThreadTask ==
    \/ NextThread
    \/ Task_unconstruct

SpecThreadTask == InitThread /\ [][NextThreadTask]_vars

\* A semaphore, a mutex and a thread side by side, each constructed as its
\* own arguments decide and at most one of them valid, with the operations of
\* all three.
InitObjects ==
    /\ kprio \in ThreadClientPriorities
    /\ kbase = kprio
    /\ tstate = [t \in AllTasks |->
                    IF t \in ThreadClients THEN "ready" ELSE "none"]
    /\ cur \in SelectHighest(tstate, kprio)
    /\ xYieldPending = FALSE
    /\ xTickCount = 0
    /\ pc = [t \in AllTasks |-> IF t \in ThreadClients THEN "run" ELSE "none"]
    /\ last = Result("construct", "none", TRUE, 0)
    /\ PoolConstructed
    /\ \E base \in BOOLEAN, a \in ObjectsCtorArgs :
         \E obj \in construct(base, a.type, a.permits, a.maximum) :
            SemConstructed(base, a, obj)
    /\ \E base \in BOOLEAN : MutexConstructed(base)
    /\ \E base \in BOOLEAN, cfg \in MaxPrioritiesConfigs,
          taskConstructed \in BOOLEAN :
            ThreadConstructed(base, cfg, taskConstructed)
    /\ ~(sValid /\ mValid)
    /\ ~(sValid /\ thValid)
    /\ ~(mValid /\ thValid)

NextObjects ==
    \/ \E t \in Tasks : acquire(t)
    \/ \E t \in Tasks : acquireResume(t)
    \/ \E t \in Tasks : release(t)
    \/ releaseFromInterrupt
    \/ \E t \in Tasks : lock(t)
    \/ \E t \in Tasks : lockResume(t)
    \/ \E t \in Tasks : unlock(t)
    \/ \E t \in Tasks : execute(t)
    \/ \E t \in Tasks : executeReturn(t)
    \/ \E t \in AllTasks : start(t)
    \/ \E t \in AllTasks : startReturn(t)
    \/ \E t \in AllTasks : startSuspend(t)
    \/ \E t \in Tasks : join(t)
    \/ \E t \in Tasks : joinPoll(t)
    \/ \E t \in Tasks : getPriority(t)
    \/ \E t \in Tasks, p \in PriorityArgs : setPriority(t, p)
    \/ \E t \in AllTasks : yield(t)
    \/ SchedulerRoutineTimer_start

SpecObjects == InitObjects /\ [][NextObjects]_vars

\* The timer routine wakes the delayed task t.
TimerWakes(t) ==
    /\ SchedulerRoutineTimer_start
    /\ tstate[t] = "delayed"
    /\ tstate'[t] = "ready"

\* What the scheduler and the tasks guarantee over a run: the tick interrupt
\* keeps coming and ends every delay; a ready task that shares the highest
\* priority gets its turn (the ready list is served round robin); a task that
\* has the processor goes on with the call it is in; the body of the thread
\* returns when it is given the processor; a client outside a call does not
\* keep the processor for ever.
FairThread ==
    /\ WF_vars(SchedulerRoutineTimer_start)
    /\ \A t \in AllTasks : WF_vars(TimerWakes(t))
    /\ \A t \in AllTasks : SF_vars(NextThread /\ cur # t /\ cur' = t)
    /\ \A t \in ThreadClients : SF_vars(executeReturn(t))
    /\ \A t \in ThreadClients : SF_vars(joinPoll(t))
    /\ \A t \in ThreadClients : SF_vars(sleep(t))
    /\ SF_vars(start(Th))
    /\ SF_vars(startReturn(Th))
    /\ SF_vars(startSuspend(Th))

SpecThreadFair == SpecThread /\ FairThread

\* ===================================================== SemaphoreResource
ReleaseOps == {"release", "releaseFromInterrupt"}

\* The constructor arguments construct() is to reject.
BadSemArgs == permits_ < 0 \/ maximum_ < 0 \/ maximum_ > MAX_PERMITS

\* The bound of the count: maximum for a counting semaphore, 1 for a binary.
PermitBound == IF type_ = TYPE_BINARY THEN 1 ELSE maximum_

\* C2: a validly constructed semaphore has 0 <= permits <= maximum in every
\* reachable state, from construction on.
C2_PermitsWithinMaximum ==
    sValid => (0 <= sCount /\ sCount <= maximum_)

\* C3 as stated: once releaseFromInterrupt() has set the flag it stays set
\* until the next release call, release() or releaseFromInterrupt(), and that
\* call resets it (releaseFromInterrupt() leaving what its own give reports).
C3_NextReleaseCallResets ==
    [][(sValid /\ xHigherPriorityTaskWoken_) =>
        IF last'.op = "release" THEN ~xHigherPriorityTaskWoken_'
        ELSE IF last'.op = "releaseFromInterrupt"
        THEN xHigherPriorityTaskWoken_' = GiveWakesHigher
        ELSE xHigherPriorityTaskWoken_']_vars

\* C3 amended: once releaseFromInterrupt() has set the flag,
\* hasToSwitchContex() returns true until the next releaseFromInterrupt()
\* call, which clears the flag before its give; release() leaves the flag as
\* it is.
C3_FlagHeldUntilInterruptRelease ==
    [][(sValid /\ xHigherPriorityTaskWoken_) =>
        /\ IF last'.op = "releaseFromInterrupt"
           THEN xHigherPriorityTaskWoken_' = GiveWakesHigher
           ELSE xHigherPriorityTaskWoken_'
        /\ (last'.op = "hasToSwitchContex" => last'.ok)]_vars

\* A release() call returned with the flag of an earlier interrupt release
\* still set.
C3_Witness ==
    /\ sValid
    /\ xHigherPriorityTaskWoken_
    /\ last.op = "release"
    /\ last.ok

\* C7: a semaphore constructed with permits < 0, maximum < 0 or
\* maximum > MAX_PERMITS is not constructed, and on it no acquire(), release()
\* or releaseFromInterrupt() call returns true, blocks or changes the count.
C7_BadArgumentsInvalid ==
    BadSemArgs =>
        /\ ~sValid
        /\ (last.op \in ReleaseOps \cup {"acquire"} => ~last.ok)
        /\ \A t \in Tasks : pc[t] # "take" /\ tstate[t] # "blocked"
        /\ sWaiters = <<>>
        /\ sCount = count0
        /\ nAcq = 0
        /\ nGive = 0

\* An acquire() on a semaphore constructed with a negative argument returned.
C7_Witness ==
    /\ BadSemArgs
    /\ last.op = "acquire"
    /\ ~last.ok

\* C8: a semaphore of type BINARY has, for every permits argument, the
\* validity and the initial count of one constructed with permits = 0.
C8_BinaryIgnoresPermits ==
    type_ = TYPE_BINARY =>
        \E o \in construct(sBase, TYPE_BINARY, 0, maximum_) :
            sValid = o.valid /\ count0 = o.count

\* C9: on a valid semaphore an acquire() completes only with permits > 0,
\* returns true and takes exactly one permit, so the completed acquires never
\* exceed the initial permits plus the successful releases.
C9_AcquireNeedsPermit ==
    /\ [](sValid => nAcq <= count0 + nGive)
    /\ [][(sValid /\ last'.op = "acquire") =>
            /\ sCount > 0
            /\ sCount' = sCount - 1
            /\ nAcq' = nAcq + 1
            /\ last'.ok]_vars
    /\ [][(sValid /\ last'.op \in ReleaseOps) =>
            /\ nAcq' = nAcq
            /\ sCount' <= sCount + 1]_vars

\* Two tasks were blocked on an empty semaphore, one release followed, one of
\* them completed its acquire() and the other is still inside it.
C9_Witness ==
    /\ sValid
    /\ count0 = 0
    /\ nGive = 1
    /\ nAcq = 1
    /\ last.op = "acquire"
    /\ \E t \in Tasks : pc[t] = "take"

\* C10: on a valid semaphore release() below the bound returns true and adds
\* exactly one permit, release() at the bound returns false and adds none; a
\* binary semaphore's count is 0 or 1 and its completed acquires and its
\* count together equal the successful releases.
C10_ReleaseUpToBound ==
    /\ [][(sValid /\ last'.op = "release") =>
            /\ sCount < PermitBound => (last'.ok /\ sCount' = sCount + 1)
            /\ sCount = PermitBound => (~last'.ok /\ sCount' = sCount)]_vars
    /\ []((sValid /\ type_ = TYPE_BINARY) =>
            (sCount \in {0, 1} /\ sCount + nAcq = nGive))

\* A release() on a binary semaphore that holds its one permit returned
\* false.
C10_Witness ==
    /\ sValid
    /\ type_ = TYPE_BINARY
    /\ sCount = 1
    /\ last.op = "release"
    /\ ~last.ok

\* ========================================================= MutexResource
\* C4: on a valid mutex, after N nested lock() calls of one task each of the
\* next N unlock() calls of that task returns true, the task owns the mutex
\* until the N-th and the mutex is free after it, and a further unlock()
\* returns false and changes neither the owner nor the recursion depth.
C4_NestedLockUnlock ==
    /\ [](mValid =>
            \A t \in Tasks :
                /\ held[t] >= 0
                /\ (held[t] > 0) = (mHolder = t)
                /\ (mHolder = NoTask) = (\A u \in Tasks : held[u] = 0))
    /\ [][(mValid /\ last'.op = "unlock") =>
            IF held[last'.who] > 0
            THEN /\ last'.ok
                 /\ held'[last'.who] = held[last'.who] - 1
            ELSE /\ ~last'.ok
                 /\ mHolder' = mHolder
                 /\ mDepth' = mDepth
                 /\ held' = held]_vars
    /\ [][(mValid /\ last'.op = "lock" /\ held[last'.who] > 0) =>
            /\ last'.ok
            /\ held'[last'.who] = held[last'.who] + 1
            /\ mHolder' = mHolder]_vars

\* A task locked the mutex MaxDepth levels deep, unlocked it as many times
\* and its next unlock() returned false.
C4_Witness ==
    /\ mValid
    /\ last.op = "unlock"
    /\ ~last.ok
    /\ nested[last.who] = MaxDepth
    /\ held[last.who] = 0
    /\ mHolder = NoTask
    /\ mDepth = 0

\* C5: on a valid mutex at most one task holds the mutex in every state, a
\* lock() of a task that is not the owner returns only when the mutex is
\* free of its owner's last level, and an unlock() of a task that does not
\* hold the mutex returns false and changes neither owner nor depth.
C5_MutualExclusion ==
    /\ [](mValid =>
            /\ Cardinality({t \in Tasks : held[t] > 0}) <= 1
            /\ (mDepth = 0) = (mHolder = NoTask)
            /\ \A t \in Tasks : pc[t] = "lock" => held[t] = 0)
    /\ [][(mValid /\ last'.op = "lock" /\ last'.ok
            /\ mHolder # last'.who) =>
            /\ mHolder = NoTask
            /\ mDepth = 0
            /\ mHolder' = last'.who
            /\ mDepth' = 1]_vars
    /\ [][(mValid /\ last'.op = "unlock" /\ mHolder # last'.who) =>
            /\ ~last'.ok
            /\ mHolder' = mHolder
            /\ mDepth' = mDepth]_vars

\* One task holds the mutex two levels deep, a second is blocked in lock()
\* and the unlock() of a third has returned false.
C5_Witness ==
    /\ mValid
    /\ mHolder \in Tasks
    /\ mDepth = 2
    /\ \E u \in Tasks : pc[u] = "lock"
    /\ last.op = "unlock"
    /\ last.who # mHolder
    /\ ~last.ok

\* ======================================================== ThreadResource
\* A step in which execute(), called on a constructed thread in status NEW,
\* returns false: the kernel returned no task handle.
ExecuteFailsInKernel ==
    /\ thValid
    /\ status_ = STATUS_NEW
    /\ last'.op = "execute"
    /\ ~last'.ok

\* C1 as stated: an execute() on a constructed thread in status NEW that
\* fails in the kernel returns false and leaves the status DEAD, and the
\* status is RUNNABLE in no later state.
C1_FailedExecuteIsDead ==
    /\ [][ExecuteFailsInKernel => status_' = STATUS_DEAD]_vars
    /\ [](execFailed => status_ # STATUS_RUNNABLE)

\* C1 amended: an execute() on a constructed thread in status NEW that fails
\* in the kernel returns false, creates no task and leaves the status NEW;
\* the status becomes RUNNABLE only in an execute() that returns true.
C1_FailedExecuteStaysNew ==
    /\ [][ExecuteFailsInKernel =>
            /\ status_' = STATUS_NEW
            /\ ~thread_'
            /\ execFailed'
            /\ tstate'[Th] = "none"]_vars
    /\ [][(status_ # STATUS_RUNNABLE /\ status_' = STATUS_RUNNABLE) =>
            (last'.op = "execute" /\ last'.ok)]_vars

\* An execute() has just failed in the kernel.
C1_Witness ==
    /\ thValid
    /\ execFailed
    /\ last.op = "execute"
    /\ ~last.ok
    /\ status_ = STATUS_NEW

\* C6: the status changes only from NEW to RUNNABLE in an execute() that
\* returns true and from RUNNABLE to DEAD when the task body returns or the
\* thread is destroyed; a thread whose construction failed is DEAD from the
\* start; DEAD is never left and NEW never entered again.
C6_StatusTransitions ==
    /\ [](~thValid => status_ = STATUS_DEAD)
    /\ [][status_' # status_ =>
            \/ /\ status_ = STATUS_NEW
               /\ status_' = STATUS_RUNNABLE
               /\ last'.op = "execute"
               /\ last'.ok
            \/ /\ status_ = STATUS_RUNNABLE
               /\ status_' = STATUS_DEAD
               /\ last'.op \in {"start:return", "~ThreadResource"}]_vars

\* C11: under the preemptive priority scheduler a join() on a constructed
\* thread in status RUNNABLE, the body of which returns when it is given the
\* processor, returns true in the end, whatever the priorities of the joining
\* task and of the thread.
C11_JoinTerminates ==
    \A t \in ThreadClients :
        (pc[t] = "join") ~> (last.op = "join" /\ last.who = t /\ last.ok)

\* A step that is a call of join(): it returns at once or enters the loop.
JoinCalled ==
    /\ last'.op \in {"join", "join:wait"}
    /\ pc[last'.who] = "run"

\* C12: join() returns false at once, without yielding, when the thread is
\* not constructed or its status at the call is NEW or DEAD; called in status
\* RUNNABLE it does not return until the status is DEAD and then returns
\* true, so a true result means the body has returned or the thread was
\* destroyed.
C12_JoinResult ==
    /\ [][(JoinCalled /\ ~(thValid /\ status_ = STATUS_RUNNABLE)) =>
            /\ last'.op = "join"
            /\ ~last'.ok
            /\ cur' = cur
            /\ pc' = pc
            /\ tstate' = tstate]_vars
    /\ [][(JoinCalled /\ thValid /\ status_ = STATUS_RUNNABLE) =>
            /\ last'.op = "join:wait"
            /\ pc'[last'.who] = "join"]_vars
    /\ [][(\E t \in Tasks : pc[t] = "join" /\ pc'[t] # "join") =>
            /\ status_ = STATUS_DEAD
            /\ last'.op = "join"
            /\ last'.ok]_vars
    /\ []((last.op = "join" /\ last.ok) => (nBodyRet > 0 \/ ~alive))

\* A join() that entered its loop has returned true after the body of the
\* thread returned.
C12_Witness ==
    /\ last.op = "join"
    /\ last.ok
    /\ alive
    /\ nBodyRet = 1
    /\ status_ = STATUS_DEAD

\* A step that is a call of execute(): it returns false at once or goes into
\* xTaskCreateStatic().
ExecuteCalled ==
    /\ last'.op \in {"execute", "execute:created"}
    /\ pc[last'.who] = "run"

\* C13: execute() returns true only on a constructed thread, called in
\* status NEW and with the kernel task created; called in status RUNNABLE or
\* DEAD it returns false and creates no kernel task; at most one kernel task
\* is created for the thread and its body is started at most once.
C13_ExecuteOnce ==
    /\ [][(last'.op = "execute" /\ last'.ok) =>
            /\ thValid
            /\ pc[last'.who] = "execute"
            /\ nCreate = 1
            /\ tstate[Th] # "none"]_vars
    /\ [][last'.op = "execute:created" =>
            /\ thValid
            /\ status_ = STATUS_NEW
            /\ nCreate = 0]_vars
    /\ [][(ExecuteCalled /\ status_ \in {STATUS_RUNNABLE, STATUS_DEAD}) =>
            /\ last'.op = "execute"
            /\ ~last'.ok
            /\ nCreate' = nCreate
            /\ tstate' = tstate
            /\ pc' = pc]_vars
    /\ [](nCreate <= 1 /\ nBody <= nCreate)

\* An execute() on a thread in status RUNNABLE, the body of which is
\* running, has returned false.
C13_Witness ==
    /\ last.op = "execute"
    /\ ~last.ok
    /\ status_ = STATUS_RUNNABLE
    /\ nCreate = 1
    /\ nBody = 1

\* C14: a thread constructed over a task that is not constructed is not
\* constructed and DEAD from construction on: execute() and join() return
\* false, no kernel task is created and the status is never RUNNABLE.
C14_InvalidTaskThread ==
    ~taskOk =>
        /\ ~thValid
        /\ status_ = STATUS_DEAD
        /\ nCreate = 0
        /\ ~thread_
        /\ tstate[Th] = "none"
        /\ last.op \notin {"execute:created", "join:wait"}
        /\ (last.op \in {"execute", "join"} => ~last.ok)

\* A join() on a thread over a task that is not constructed has returned.
C14_Witness ==
    /\ thBase
    /\ ~taskOk
    /\ alive
    /\ last.op = "join"
    /\ ~last.ok

\* C15: the trampoline of a constructed thread calls task_->start() once,
\* sets the status to DEAD only when that call has returned and then
\* suspends the kernel task for good; while the body runs and the thread is
\* not destroyed the status is not DEAD, and the body is not called twice.
C15_TrampolineOrder ==
    /\ [](nBody <= 1 /\ nBodyRet <= nBody)
    /\ []((alive /\ thValid /\ status_ = STATUS_DEAD) => nBodyRet = 1)
    /\ []((alive /\ nBody = 1 /\ nBodyRet = 0) =>
            (status_ # STATUS_DEAD /\ tstate[Th] # "suspended"))
    /\ [][last'.op = "start:return" =>
            /\ nBody = 1
            /\ nBodyRet = 0
            /\ status_' = STATUS_DEAD
            /\ tstate'[Th] # "suspended"]_vars
    /\ [][(tstate[Th] # "suspended" /\ tstate'[Th] = "suspended") =>
            /\ last'.op = "start:parked"
            /\ nBodyRet = 1]_vars
    /\ [][tstate[Th] = "suspended" =>
            tstate'[Th] \in {"suspended", "deleted"}]_vars

\* The trampoline has called the body, set the status and suspended the
\* kernel task.
C15_Witness ==
    /\ alive
    /\ last.op = "start:parked"
    /\ tstate[Th] = "suspended"
    /\ nBody = 1
    /\ nBodyRet = 1
    /\ status_ = STATUS_DEAD

C17_SetPriorityResult ==
    [][\A t \in Tasks, p \in PriorityArgs :
        (setPriority(t, p) /\ thValid /\ isPriority(p)) =>
            /\ status_ = STATUS_RUNNABLE => last'.ok
            /\ status_ = STATUS_NEW => (~last'.ok /\ priority_' = p)]_vars

\* C18: the destructor deletes the kernel task when one was created and
\* only then: with a task created, in status RUNNABLE or DEAD, it deletes it
\* once and leaves the status DEAD; with none created, in status NEW or DEAD,
\* it deletes nothing; no kernel task is deleted twice.
C18_DeleteIffCreated ==
    /\ [](nDelete <= nCreate /\ nDelete <= 1)
    /\ [](~alive => nDelete = nCreate)
    /\ [][last'.op = "~ThreadResource" =>
            IF nCreate = 1
            THEN /\ status_ \in {STATUS_RUNNABLE, STATUS_DEAD}
                 /\ tstate[Th] # "deleted"
                 /\ tstate'[Th] = "deleted"
                 /\ nDelete' = nDelete + 1
                 /\ status_' = STATUS_DEAD
            ELSE /\ status_ \in {STATUS_NEW, STATUS_DEAD}
                 /\ tstate'[Th] = "none"
                 /\ nDelete' = nDelete
                 /\ status_' = status_]_vars
    /\ [][tstate[Th] = "deleted" => UNCHANGED <<tstate[Th], nDelete>>]_vars

\* The thread was destroyed in status RUNNABLE while its body was running.
C18_Witness ==
    /\ ~alive
    /\ last.op = "~ThreadResource"
    /\ nDelete = 1
    /\ nBody = 1
    /\ nBodyRet = 0
    /\ status_ = STATUS_DEAD

\* ================================================= Scheduler::ResourcePool
\* C19: a pool of capacity NUMBER_OF_THREADS hands out a free slot at every
\* allocate() while fewer than that many are outstanding, each distinct from
\* the slots outstanding, and no slot once all are; a free() of an allocated
\* slot makes the next allocate() succeed; the outstanding slots are between
\* 0 and NUMBER_OF_THREADS in number.
C19_PoolCapacity ==
    /\ [](/\ nOut \in 0..NUMBER_OF_THREADS
          /\ nOut = Cardinality({i \in Slots : used[i]}))
    /\ [][last'.op = "allocate" =>
            IF nOut < NUMBER_OF_THREADS
            THEN /\ last'.ok
                 /\ last'.num \in Slots
                 /\ ~used[last'.num]
                 /\ used' = [used EXCEPT ![last'.num] = TRUE]
                 /\ nOut' = nOut + 1
            ELSE /\ ~last'.ok
                 /\ last'.num = NONE
                 /\ used' = used
                 /\ nOut' = nOut]_vars
    /\ [][last'.op = "free" =>
            /\ last'.ok
            /\ used[last'.num]
            /\ used' = [used EXCEPT ![last'.num] = FALSE]
            /\ nOut' = nOut - 1]_vars

\* An allocate() has found the pool exhausted, a slot was freed and the
\* next allocate() has returned it: the pool is full again.
C19_Witness ==
    /\ exhausted
    /\ last.op = "allocate"
    /\ last.ok
    /\ nOut = NUMBER_OF_THREADS

\* C20: createThread() calls that run concurrently are serialized by the
\* mutex of the pool: at most one task is inside the pool, no slot is handed
\* to two callers, at most NUMBER_OF_THREADS threads are outstanding, and a
\* createThread() that finds the pool exhausted returns null and leaves the
\* status of every thread and the contents of the pool as they are.
C20_CreateThreadSerialized ==
    /\ [](Cardinality({t \in Tasks : InPool(t)}) <= 1)
    /\ [](/\ nLive \in 0..NUMBER_OF_THREADS
          /\ nLive = Cardinality({i \in Slots : owner[i] # NoTask}))
    /\ [](\A t \in Tasks :
            (call[t].op = "createThread" /\ call[t].slot # NONE) =>
                /\ owner[call[t].slot] = NoTask
                /\ thr[call[t].slot] = "none"
                /\ \A u \in Tasks \ {t} :
                      call[u].op = "createThread" =>
                          call[u].slot # call[t].slot)
    /\ [][last'.op = "createThread" =>
            IF call[last'.who].slot # NONE
            THEN /\ last'.ok
                 /\ last'.num = call[last'.who].slot
                 /\ used[last'.num]
                 /\ owner[last'.num] = NoTask
                 /\ owner' = [owner EXCEPT ![last'.num] = last'.who]
                 /\ \A i \in Slots \ {last'.num} : thr'[i] = thr[i]
                 /\ nLive' = nLive + 1
            ELSE /\ ~last'.ok
                 /\ UNCHANGED <<used, owner, thr, nOut, nLive>>]_vars
    /\ [][(last'.op = "allocate" /\ ~last'.ok) =>
            /\ \A i \in Slots : used[i]
            /\ UNCHANGED <<used, owner, thr, nOut, nLive>>]_vars

\* With every slot holding a thread in status RUNNABLE, made by two tasks,
\* a createThread() has returned null while the other task waits for the
\* mutex of the pool.
C20_Witness ==
    /\ last.op = "createThread"
    /\ ~last.ok
    /\ \A i \in Slots : thr[i] = STATUS_RUNNABLE
    /\ \A t \in PoolClients : \E i \in Slots : owner[i] = t
    /\ \E u \in Tasks : pc[u] = "lock"

\* C21: an object's validity is fixed at construction, and on a semaphore, a
\* mutex or a thread that is not valid every acquire, release,
\* releaseFromInterrupt, lock, unlock, execute, join and setPriority returns
\* false, and getPriority PRIORITY_WRONG, without blocking the caller and
\* leaving the kernel and every field of the object as they were.
C21_InvalidObjectInert ==
    [][/\ sValid' = sValid
       /\ mValid' = mValid
       /\ thValid' = thValid
       /\ (~sValid /\ last'.op \in {"acquire", "acquire:wait", "release",
                                    "releaseFromInterrupt"})
            => /\ last'.op # "acquire:wait"
               /\ ~last'.ok
               /\ UNCHANGED <<schedVars, semVars>>
       /\ (~mValid /\ last'.op \in {"lock", "lock:wait", "unlock"})
            => /\ last'.op # "lock:wait"
               /\ ~last'.ok
               /\ UNCHANGED <<schedVars, mtxVars>>
       /\ (~thValid /\ last'.op \in {"execute", "execute:created", "join",
                                     "join:wait", "setPriority"})
            => /\ last'.op \in {"execute", "join", "setPriority"}
               /\ ~last'.ok
               /\ UNCHANGED <<schedVars, thrVars>>
       /\ (~thValid /\ last'.op = "getPriority")
            => /\ last'.num = PRIORITY_WRONG
               /\ UNCHANGED <<schedVars, thrVars>>]_vars

\* No object is valid, and a task that called lock() runs on with false.
C21_Witness ==
    /\ ~sValid
    /\ ~mValid
    /\ ~thValid
    /\ last.op = "lock"
    /\ ~last.ok
    /\ \E t \in Tasks : last.who = t /\ Running(t)

\* C22: tryLock() returns false whatever the state of the mutex, free, held
\* by the caller or held by another task, and changes neither the holder nor
\* the nesting depth nor anything else of the mutex or the kernel, so the
\* lock() and unlock() calls around it find what they would find without it.
C22_TryLockInert ==
    [][last'.op = "tryLock" =>
        /\ ~last'.ok
        /\ UNCHANGED <<schedVars, mtxVars>>]_vars

\* tryLock() returned false to the task that holds the mutex twice over
\* while another task waits for it.
C22_Witness ==
    /\ mValid
    /\ last.op = "tryLock"
    /\ ~last.ok
    /\ mHolder = last.who
    /\ mDepth = 2
    /\ mWaiters # <<>>

\* C23: each run of the timer routine advances the tick count by one and
\* switches context exactly when xTaskIncrementTick() reported that a switch
\* is required; each run of the supervisor-call routine switches context
\* once, whatever the state, and leaves the tick count alone; neither routine
\* blocks: no task leaves the ready state and no task's position changes.
C23_RoutinesSwitch ==
    [][/\ last'.op = "Timer.start" =>
            /\ xTickCount' = (xTickCount + 1) % TickModulus
            /\ IF last'.ok
               THEN cur' \in SelectHighest(tstate', kprio) /\ ~xYieldPending'
               ELSE cur' = cur /\ xYieldPending' = xYieldPending
            /\ \A t \in AllTasks :
                  tstate'[t] # tstate[t] =>
                      tstate[t] = "delayed" /\ tstate'[t] = "ready"
            /\ pc' = pc
       /\ last'.op = "Svcall.start" =>
            /\ xTickCount' = xTickCount
            /\ cur' \in SelectHighest(tstate, kprio)
            /\ ~xYieldPending'
            /\ tstate' = tstate
            /\ pc' = pc]_vars

\* The timer routine switched to a task while a task of a lower priority is
\* ready, and the tick count has wrapped.
C23_Witness ==
    /\ last.op = "Timer.start"
    /\ last.ok
    /\ xTickCount = 0
    /\ cur \in Tasks
    /\ \E t \in ReadyTasks(tstate) : kprio[t] < kprio[cur]

\* C24: the stored priority of a thread is PRIORITY_NORM when the constructor
\* has run and at all times lies in PRIORITY_MIN..PRIORITY_MAX or is
\* PRIORITY_IDLE; a setPriority(p) with p outside that range, or on a thread
\* in status DEAD, or on a thread that is not valid, changes neither the
\* stored priority nor any priority in the kernel.
C24_PriorityInRange ==
    /\ [](last.op = "construct" => priority_ = PRIORITY_NORM)
    /\ [](\/ PRIORITY_MIN <= priority_ /\ priority_ <= PRIORITY_MAX
          \/ priority_ = PRIORITY_IDLE)
    /\ [][\A t \in Tasks, p \in PriorityArgs :
            (/\ setPriority(t, p)
             /\ \/ p > PRIORITY_MAX
                \/ p < PRIORITY_MIN /\ p # PRIORITY_IDLE
                \/ status_ = STATUS_DEAD
                \/ ~thValid)
            => /\ priority_' = priority_
               /\ kprio' = kprio
               /\ kbase' = kbase]_vars

\* setPriority() has returned on a thread whose body has run and returned,
\* in status DEAD, with the priority stored before the thread started still
\* in place in the object and in the kernel.
C24_Witness ==
    /\ alive
    /\ thValid
    /\ status_ = STATUS_DEAD
    /\ nBodyRet = 1
    /\ last.op = "setPriority"
    /\ priority_ = PRIORITY_MIN
    /\ kbase[Th] = PRIORITY_MIN

\* C25: the flag xHigherPriorityTaskWoken_ is written by releaseFromInterrupt()
\* on a valid semaphore and by nothing else: that call leaves the flag true
\* exactly when its give readied a waiting task of a higher priority than the
\* running one, whatever the flag was before; acquire(), release(),
\* getCount() and hasToSwitchContex() leave the flag as it is, and
\* hasToSwitchContex() returns it; on a semaphore that is not valid the flag
\* is false at all times.
C25_FlagWrittenByInterruptRelease ==
    /\ [][IF sValid /\ last'.op = "releaseFromInterrupt"
          THEN xHigherPriorityTaskWoken_' =
                  (/\ sWaiters # <<>>
                   /\ tstate'[Head(sWaiters)] = "ready"
                   /\ tstate[Head(sWaiters)] = "blocked"
                   /\ kprio[Head(sWaiters)] > PrioOf(cur))
          ELSE xHigherPriorityTaskWoken_' = xHigherPriorityTaskWoken_]_vars
    /\ [][last'.op = "hasToSwitchContex" =>
            last'.ok = xHigherPriorityTaskWoken_]_vars
    /\ [](~sValid => ~xHigherPriorityTaskWoken_)

\* hasToSwitchContex() returned false after a second interrupt release that
\* woke no task, the first one having set the flag.
C25_Witness ==
    /\ sValid
    /\ last.op = "hasToSwitchContex"
    /\ ~last.ok
    /\ nGive >= 2
    /\ xYieldPending

\* C26: no kernel function is called with a NULL handle: not the take, the
\* give, the give from the interrupt or the count of a semaphore whose
\* construction failed.
C26_NoNullHandle ==
    ~nullHandle

\* C27: on a thread that execute() has started, a join() called after the
\* task body has returned returns false at once; a join() called before that,
\* in status RUNNABLE, enters its loop and leaves it with true, which it does
\* only once the body has returned or the thread is destroyed.
C27_JoinFollowsBody ==
    /\ [][(JoinCalled /\ thread_ /\ nBodyRet = 1) =>
            /\ last'.op = "join"
            /\ ~last'.ok]_vars
    /\ [][(JoinCalled /\ thread_ /\ nBodyRet = 0
                      /\ status_ = STATUS_RUNNABLE) =>
            last'.op = "join:wait"]_vars
    /\ [][(\E t \in Tasks : pc[t] = "join" /\ pc'[t] # "join") =>
            /\ last'.op = "join"
            /\ last'.ok
            /\ (nBodyRet = 1 \/ ~alive)]_vars

=============================================================================
